---- MODULE Spec2Model ----
(***************************************************************************)
(* Model of src/src/helper.ts: the listener registry (addEventListener,    *)
(* removeEventListeners) and the timed wait engine (waitForEvent,          *)
(* waitWithTimeout) running on a single-threaded event loop.               *)
(*                                                                         *)
(* Promises are records [state, value]; a settled promise with a           *)
(* subscribed reaction appends a job to the FIFO microtask queue; timers   *)
(* are macrotasks and fire only when the microtask queue is empty.         *)
(* Synchronous steps of the surrounding program (emit, settling the abort  *)
(* promise, starting a call) may happen between any two jobs.              *)
(***************************************************************************)
EXTENDS Naturals, Sequences, FiniteSets, TLC

VARIABLES
  listeners,      \* emitter -> event name -> sequence of subscribed handlers
  batch,          \* the caller's array of RegisteredListener handles
  removeCalls,    \* number of emitter.removeListener calls made so far (registry)
  lastOp,         \* the registry operation executed last and its batch length
  prevOp,         \* the registry operation executed before it
  pc,             \* per waitForEvent call: "idle", "awaiting", "done"
  args,           \* per call: [emitter, eventName, timeout]
  promise,        \* per call: the promise created at helper.ts:110
  abortPromise,   \* per call: the abortPromise argument
  racePromise,    \* per call: Promise.race([promise, abortPromise])
  thenPromise,    \* per call: the promise returned by .then(...) at helper.ts:132
  outcome,        \* per call: the promise returned by the async function
  timerArmed,     \* per call: eventTimeout is scheduled and not cleared
  timerFired,     \* per call: the setTimeout callback has run
  microtasks,     \* the event loop's FIFO queue of promise jobs
  emits,          \* number of emit calls made so far
  order,          \* per call: the completion sources in the order they first fired
  ignored,        \* per call: number of events on which the predicate returned false
  cleanups,       \* per call: number of times cleanup() has run
  removals,       \* per call: number of removeListener calls for its handler
  clears,         \* per call: number of clearTimeout calls
  wpc,            \* waitWithTimeout: "idle", "awaiting", "done"
  wargs,          \* waitWithTimeout: [taskName, timeout]
  wpromise,       \* waitWithTimeout: the promise argument
  wtimeoutPromise,\* waitWithTimeout: timeoutPromise
  wrace,          \* waitWithTimeout: Promise.race([promise, timeoutPromise])
  woutcome,       \* waitWithTimeout: the promise returned by the async function
  wtimer,         \* waitWithTimeout: "null", "armed", "fired", "cleared"
  wjobs,          \* waitWithTimeout: the microtask queue
  wfirst          \* waitWithTimeout: which side settled first ("none" so far)

regVars  == <<batch, removeCalls, lastOp, prevOp>>
waitVars == <<pc, args, promise, abortPromise, racePromise, thenPromise, outcome,
              timerArmed, timerFired, microtasks, emits, order, ignored,
              cleanups, removals, clears>>
wwtVars  == <<wpc, wargs, wpromise, wtimeoutPromise, wrace, woutcome, wtimer, wjobs,
              wfirst>>
vars     == <<listeners, regVars, waitVars, wwtVars>>

----------------------------------------------------------------------------
(* Bounds *)

MaxEmits == 2
MaxAdds == 2
MaxPairEmits == 1

(* Inputs *)

Emitters == {"page", "worker"}
EventNames == {"load", "close"}
Waits == {"w1", "w2"}
Others == {"h1", "h2"}
Timeouts == {0, 100}
TaskNames == {"navigation", "selector"}

----------------------------------------------------------------------------
(* Values and promises *)

Val(k, m) == [kind |-> k, msg |-> m]
None == Val("none", "")
PayloadA == Val("plain", "A")
PayloadB == Val("plain", "B")
PayloadError == Val("Error", "page crashed")
Payloads == {PayloadA, PayloadB, PayloadError}
PredErr == Val("Error", "Err")
AbortErr == Val("Error", "aborted")
AbortPlain == Val("plain", "skipped")
AbortRejection == Val("Error", "abort failed")

TimeoutError(message) == Val("TimeoutError", message)

InstanceOfError(v) == v.kind \in {"Error", "TimeoutError"}

Pending == [state |-> "pending", value |-> None]
Fulfilled(v) == [state |-> "fulfilled", value |-> v]
Rejected(e) == [state |-> "rejected", value |-> e]

----------------------------------------------------------------------------
(* The event source: on appends, removeListener removes the most recently  *)
(* added instance of the handler and tolerates an unknown handler.         *)

LastIndexOf(s, h) ==
  LET idx == {i \in 1..Len(s) : s[i] = h}
  IN IF idx = {} THEN 0 ELSE CHOOSE i \in idx : \A j \in idx : j <= i

RemoveAt(s, i) == SubSeq(s, 1, i - 1) \o SubSeq(s, i + 1, Len(s))

EmitterOn(ls, emitter, eventName, handler) ==
  [ls EXCEPT ![emitter][eventName] = Append(@, handler)]

EmitterRemoveListener(ls, emitter, eventName, handler) ==
  LET i == LastIndexOf(ls[emitter][eventName], handler)
  IN IF i = 0 THEN ls
     ELSE [ls EXCEPT ![emitter][eventName] = RemoveAt(@, i)]

Count(s, h) == Cardinality({i \in 1..Len(s) : s[i] = h})

----------------------------------------------------------------------------
(* Listener registry *)

RegisteredListener(emitter, eventName, handler) ==
  [emitter |-> emitter, eventName |-> eventName, handler |-> handler]

addEventListener(ls, emitter, eventName, handler) ==
  [listeners |-> EmitterOn(ls, emitter, eventName, handler),
   handle |-> RegisteredListener(emitter, eventName, handler)]

RECURSIVE RemoveEach(_, _)
RemoveEach(ls, handles) ==
  IF handles = <<>> THEN ls
  ELSE RemoveEach(EmitterRemoveListener(ls, handles[1].emitter,
                                        handles[1].eventName, handles[1].handler),
                  Tail(handles))

SpliceAll(handles) == SubSeq(handles, Len(handles) + 1, Len(handles))

removeEventListenersNoSplice(ls, handles) ==
  [listeners |-> RemoveEach(ls, handles),
   handles |-> handles,
   calls |-> Len(handles)]

\* helper.ts:83-91: one removeListener call per handle, then splice(0, length).
removeEventListeners(ls, handles) ==
  [listeners |-> RemoveEach(ls, handles),
   handles |-> SpliceAll(handles),
   calls |-> Len(handles)]

----------------------------------------------------------------------------
(* waitForEvent: promise plumbing *)

RaceJob(w, src) == [type |-> "race", w |-> w, src |-> src]
ThenJob(w) == [type |-> "then", w |-> w, src |-> "race"]
AwaitJob(w) == [type |-> "await", w |-> w, src |-> "then"]

PredResults == {"true", "false", "throw"}

\* History kept for the properties: each completion source ("event": the
\* predicate returned true, "predicate": it threw, "timer", "abort") is
\* recorded with what it delivered, the first time it fires.
Note(st, w, src, p) ==
  IF \E i \in 1..Len(st.order[w]) : st.order[w][i].src = src
  THEN st
  ELSE [st EXCEPT !.order[w] =
          Append(@, [src |-> src, state |-> p.state, value |-> p.value])]

\* A matching event: the first is recorded as "event", a later one as "again".
NoteMatch(st, w, event) ==
  IF \E i \in 1..Len(st.order[w]) : st.order[w][i].src = "event"
  THEN Note(st, w, "again", Fulfilled(event))
  ELSE Note(st, w, "event", Fulfilled(event))

\* Settling the promise of helper.ts:110 through resolve or reject: only the
\* first call has an effect, and it queues the reaction Promise.race subscribed.
SettlePromise(w, p, st) ==
  IF st.promise[w].state = "pending"
  THEN [st EXCEPT !.promise[w] = p,
                  !.microtasks = Append(@, RaceJob(w, "promise"))]
  ELSE st

resolveCallback(w, event, st) == SettlePromise(w, Fulfilled(event), st)

rejectCallback(w, error, st) == SettlePromise(w, Rejected(error), st)

ListenerSwallows(w, event, r, st) ==
  IF r = "true"
  THEN resolveCallback(w, event, NoteMatch(st, w, event))
  ELSE IF r = "throw" THEN Note(st, w, "predicate", Rejected(PredErr))
  ELSE [st EXCEPT !.ignored[w] = @ + 1]

ListenerIgnoresPredicate(w, event, r, st) ==
  IF r = "throw"
  THEN rejectCallback(w, PredErr, Note(st, w, "predicate", Rejected(PredErr)))
  ELSE resolveCallback(w, event,
                       IF r = "true" THEN NoteMatch(st, w, event)
                       ELSE [st EXCEPT !.ignored[w] = @ + 1])

\* The handler subscribed at helper.ts:114, run on one event; r is what the
\* predicate does on this event.
Listener(w, event, r, st) ==
  IF r = "false" THEN [st EXCEPT !.ignored[w] = @ + 1]
  ELSE IF r = "true"
       THEN resolveCallback(w, event, NoteMatch(st, w, event))
       ELSE rejectCallback(w, PredErr, Note(st, w, "predicate", Rejected(PredErr)))

\* emitter.emit: every handler subscribed when the emit starts runs, in
\* subscription order; handlers of other subscribers leave this state alone.
RECURSIVE EmitTo(_, _, _, _)
EmitTo(hs, event, res, st) ==
  IF hs = <<>> THEN st
  ELSE EmitTo(Tail(hs), event, res,
              IF hs[1] \in Waits THEN Listener(hs[1], event, res[hs[1]], st) ELSE st)

TimeoutMessageNoName(eventName) == "Timeout exceeded while waiting for event"

TimeoutMessage(eventName) == "Timeout exceeded while waiting for " \o eventName

cleanupWrongHandler(w, ls, a, armed) ==
  LET r == removeEventListeners(ls, <<RegisteredListener(a.emitter, a.eventName, "h1")>>)
  IN [listeners |-> r.listeners, removed |-> r.calls, armed |-> FALSE, cleared |-> 1,
      ran |-> 1]

cleanupKeepsTimer(w, ls, a, armed) ==
  LET r == removeEventListeners(ls, <<RegisteredListener(a.emitter, a.eventName, w)>>)
  IN [listeners |-> r.listeners, removed |-> r.calls, armed |-> armed, cleared |-> 0,
      ran |-> 1]

\* cleanup() of helper.ts:128.
cleanup(w, ls, a, armed) ==
  LET r == removeEventListeners(ls, <<RegisteredListener(a.emitter, a.eventName, w)>>)
  IN [listeners |-> r.listeners, removed |-> r.calls, armed |-> FALSE, cleared |-> 1,
      ran |-> 1]

RaceLastWins(race, p) == p

\* A reaction of Promise.race: the first input promise whose reaction runs
\* settles the race, later ones are ignored.
RaceSettle(race, p) == IF race.state = "pending" THEN p ELSE race

\* The two callbacks of .then at helper.ts:132-138: each runs cleanup and
\* hands the settlement on unchanged.
thenOnFulfilled(w, ls, a, armed) == cleanup(w, ls, a, armed)

thenOnRejectedNoCleanup(w, ls, a, armed) ==
  [listeners |-> ls, removed |-> 0, armed |-> armed, cleared |-> 0, ran |-> 0]

thenOnRejected(w, ls, a, armed) == cleanup(w, ls, a, armed)

ResultThrowsAny(t) == Rejected(t.value)

ResultNoInstanceOf(t) ==
  IF t.state = "rejected" THEN Rejected(t.value) ELSE Fulfilled(t.value)

\* helper.ts:139-141 after the await: a rejection is rethrown, an Error value
\* is thrown, anything else is returned.
Result(t) ==
  IF t.state = "rejected" THEN Rejected(t.value)
  ELSE IF InstanceOfError(t.value) THEN Rejected(t.value)
  ELSE Fulfilled(t.value)

----------------------------------------------------------------------------
(* waitForEvent: actions *)

State == [promise |-> promise, microtasks |-> microtasks, order |-> order,
          ignored |-> ignored]

Apply(st) ==
  /\ promise' = st.promise
  /\ microtasks' = st.microtasks
  /\ order' = st.order
  /\ ignored' = st.ignored

ArmEventTimerAlways(timeout) == TRUE

\* helper.ts:123-127: the timer is armed only for a non-zero timeout.
ArmEventTimer(timeout) == timeout # 0

\* helper.ts:107-132, up to the await.
CallWaitForEvent(w, emitter, eventName, timeout) ==
  /\ pc[w] = "idle"
  /\ pc' = [pc EXCEPT ![w] = "awaiting"]
  /\ args' = [args EXCEPT ![w] = [emitter |-> emitter, eventName |-> eventName,
                                  timeout |-> timeout]]
  /\ listeners' = addEventListener(listeners, emitter, eventName, w).listeners
  /\ timerArmed' = [timerArmed EXCEPT ![w] = ArmEventTimer(timeout)]
  /\ microtasks' = IF abortPromise[w].state # "pending"
                   THEN Append(microtasks, RaceJob(w, "abort"))
                   ELSE microtasks
  /\ UNCHANGED <<regVars, wwtVars, promise, abortPromise, racePromise, thenPromise,
                 outcome, timerFired, emits, order, ignored, cleanups, removals,
                 clears>>

\* The program emits an event on a source.
Emit(emitter, eventName, event, res) ==
  /\ emits < MaxEmits
  /\ emits' = emits + 1
  /\ Apply(EmitTo(listeners[emitter][eventName], event, res, State))
  /\ UNCHANGED <<listeners, regVars, wwtVars, pc, args, abortPromise, racePromise,
                 thenPromise, outcome, timerArmed, timerFired, cleanups, removals,
                 clears>>

\* The setTimeout callback of helper.ts:124: a task of its own.
TimerFire(w) ==
  /\ timerArmed[w]
  /\ microtasks = <<>>
  /\ timerArmed' = [timerArmed EXCEPT ![w] = FALSE]
  /\ timerFired' = [timerFired EXCEPT ![w] = TRUE]
  /\ LET e == TimeoutError(TimeoutMessage(args[w].eventName))
     IN Apply(rejectCallback(w, e, Note(State, w, "timer", Rejected(e))))
  /\ UNCHANGED <<listeners, regVars, wwtVars, pc, args, abortPromise, racePromise,
                 thenPromise, outcome, emits, cleanups, removals, clears>>

\* The caller's abort promise settles.
AbortSettle(w, p) ==
  /\ abortPromise[w].state = "pending"
  /\ abortPromise' = [abortPromise EXCEPT ![w] = p]
  /\ order' = Note(State, w, "abort", p).order
  /\ microtasks' = IF pc[w] # "idle"
                   THEN Append(microtasks, RaceJob(w, "abort"))
                   ELSE microtasks
  /\ UNCHANGED <<listeners, regVars, wwtVars, pc, args, promise, racePromise,
                 thenPromise, outcome, timerArmed, timerFired, emits, ignored,
                 cleanups, removals, clears>>

\* Promise.race's reaction to one of its two inputs.
RaceReaction(job) ==
  LET w == job.w
      p == IF job.src = "promise" THEN promise[w] ELSE abortPromise[w]
  IN /\ racePromise' = [racePromise EXCEPT ![w] = RaceSettle(@, p)]
     /\ microtasks' = IF racePromise[w].state = "pending"
                      THEN Append(Tail(microtasks), ThenJob(w))
                      ELSE Tail(microtasks)
     /\ UNCHANGED <<listeners, regVars, wwtVars, pc, args, promise, abortPromise,
                    thenPromise, outcome, timerArmed, timerFired, emits, order,
                    ignored, cleanups, removals, clears>>

\* The reaction of .then at helper.ts:132-138.
ThenReaction(job) ==
  LET w == job.w
      c == IF racePromise[w].state = "fulfilled"
           THEN thenOnFulfilled(w, listeners, args[w], timerArmed[w])
           ELSE thenOnRejected(w, listeners, args[w], timerArmed[w])
  IN /\ listeners' = c.listeners
     /\ timerArmed' = [timerArmed EXCEPT ![w] = c.armed]
     /\ cleanups' = [cleanups EXCEPT ![w] = @ + c.ran]
     /\ removals' = [removals EXCEPT ![w] = @ + c.removed]
     /\ clears' = [clears EXCEPT ![w] = @ + c.cleared]
     /\ thenPromise' = [thenPromise EXCEPT ![w] = racePromise[w]]
     /\ microtasks' = Append(Tail(microtasks), AwaitJob(w))
     /\ UNCHANGED <<regVars, wwtVars, pc, args, promise, abortPromise, racePromise,
                    outcome, timerFired, emits, order, ignored>>

\* The async function resumes after the await and completes (helper.ts:139-141).
AwaitResume(job) ==
  LET w == job.w
  IN /\ outcome' = [outcome EXCEPT ![w] = Result(thenPromise[w])]
     /\ pc' = [pc EXCEPT ![w] = "done"]
     /\ microtasks' = Tail(microtasks)
     /\ UNCHANGED <<listeners, regVars, wwtVars, args, promise, abortPromise,
                    racePromise, thenPromise, timerArmed, timerFired, emits, order,
                    ignored, cleanups, removals, clears>>

RunMicrotask ==
  /\ microtasks # <<>>
  /\ LET job == Head(microtasks)
     IN \/ job.type = "race" /\ RaceReaction(job)
        \/ job.type = "then" /\ ThenReaction(job)
        \/ job.type = "await" /\ AwaitResume(job)

AbortResults == {Fulfilled(AbortErr), Fulfilled(AbortPlain), Rejected(AbortRejection)}

----------------------------------------------------------------------------
(* Initial state and specifications *)

\* The page already has a subscriber on each event, the worker has none.
InitListeners ==
  [e \in Emitters |-> [n \in EventNames |-> IF e = "page" THEN <<"h1">> ELSE <<>>]]

NoOp == [op |-> "init", n |-> 0]

InitRegistry ==
  /\ batch = <<>>
  /\ removeCalls = 0
  /\ lastOp = NoOp
  /\ prevOp = NoOp

InitWaits ==
  /\ pc = [w \in Waits |-> "idle"]
  /\ args = [w \in Waits |-> [emitter |-> "page", eventName |-> "load", timeout |-> 0]]
  /\ promise = [w \in Waits |-> Pending]
  /\ abortPromise = [w \in Waits |-> Pending]
  /\ racePromise = [w \in Waits |-> Pending]
  /\ thenPromise = [w \in Waits |-> Pending]
  /\ outcome = [w \in Waits |-> Pending]
  /\ timerArmed = [w \in Waits |-> FALSE]
  /\ timerFired = [w \in Waits |-> FALSE]
  /\ microtasks = <<>>
  /\ emits = 0
  /\ order = [w \in Waits |-> <<>>]
  /\ ignored = [w \in Waits |-> 0]
  /\ cleanups = [w \in Waits |-> 0]
  /\ removals = [w \in Waits |-> 0]
  /\ clears = [w \in Waits |-> 0]

InitWWT ==
  /\ wpc = "idle"
  /\ wargs = [taskName |-> "navigation", timeout |-> 0]
  /\ wpromise = Pending
  /\ wtimeoutPromise = Pending
  /\ wrace = Pending
  /\ woutcome = Pending
  /\ wtimer = "null"
  /\ wjobs = <<>>
  /\ wfirst = "none"

Init ==
  /\ listeners = InitListeners
  /\ InitRegistry
  /\ InitWaits
  /\ InitWWT

\* One waitForEvent call on a source shared with another subscriber.
Callers == {"w1"}

Next ==
  \/ \E w \in Callers, e \in Emitters, n \in EventNames, t \in Timeouts :
       CallWaitForEvent(w, e, n, t)
  \/ \E e \in Emitters, n \in EventNames, ev \in Payloads, res \in [Callers -> PredResults] :
       Emit(e, n, ev, res)
  \/ \E w \in Callers : TimerFire(w)
  \/ \E w \in Callers, p \in AbortResults : AbortSettle(w, p)
  \/ RunMicrotask

Spec == Init /\ [][Next]_vars

\* The event loop runs every queued job, and an armed timer eventually fires.
FairSpec == Spec /\ WF_vars(RunMicrotask) /\ \A w \in Callers : WF_vars(TimerFire(w))

----------------------------------------------------------------------------
(* Two waitForEvent calls on the same source and event name *)

PairAborts == {Fulfilled(AbortErr)}
PairTimeouts == {100}

NextPair ==
  \/ \E w \in Waits, t \in PairTimeouts : CallWaitForEvent(w, "page", "load", t)
  \/ \E ev \in Payloads, res \in [Waits -> PredResults] :
       emits < MaxPairEmits /\ Emit("page", "load", ev, res)
  \/ \E w \in Waits : TimerFire(w)
  \/ \E w \in Waits, p \in PairAborts : AbortSettle(w, p)
  \/ RunMicrotask

SpecPair == Init /\ [][NextPair]_vars

----------------------------------------------------------------------------
(* Listener registry: a caller that collects its handles in one batch *)

\* helper.ts:75-81; the caller pushes the returned handle onto its batch.
RegAdd(emitter, eventName, handler) ==
  /\ Len(batch) < MaxAdds
  /\ LET r == addEventListener(listeners, emitter, eventName, handler)
     IN /\ listeners' = r.listeners
        /\ batch' = Append(batch, r.handle)
  /\ prevOp' = lastOp
  /\ lastOp' = [op |-> "add", n |-> Len(batch)]
  /\ UNCHANGED <<removeCalls, waitVars, wwtVars>>

\* helper.ts:83-91 on the caller's batch.
RegRemove ==
  /\ LET r == removeEventListeners(listeners, batch)
     IN /\ listeners' = r.listeners
        /\ batch' = r.handles
        /\ removeCalls' = r.calls
  /\ prevOp' = lastOp
  /\ lastOp' = [op |-> "remove", n |-> Len(batch)]
  /\ UNCHANGED <<waitVars, wwtVars>>

\* Somebody else unsubscribes a handler directly on the source.
RegExternalRemove(emitter, eventName, handler) ==
  /\ Count(listeners[emitter][eventName], handler) > 0
  /\ listeners' = EmitterRemoveListener(listeners, emitter, eventName, handler)
  /\ prevOp' = lastOp
  /\ lastOp' = [op |-> "external", n |-> Len(batch)]
  /\ UNCHANGED <<batch, removeCalls, waitVars, wwtVars>>

NextRegistry ==
  \/ \E e \in Emitters, n \in EventNames, h \in Others : RegAdd(e, n, h)
  \/ RegRemove
  \/ \E e \in Emitters, n \in EventNames, h \in Others : RegExternalRemove(e, n, h)

SpecRegistry == Init /\ [][NextRegistry]_vars

----------------------------------------------------------------------------
(* waitWithTimeout *)

WTimeouts == {0, 100, 30000}
CompValue == Val("plain", "result")
CompErrorValue == Val("Error", "returned error")
UpstreamErr == Val("Error", "upstream")
CompResults == {Fulfilled(CompValue), Fulfilled(CompErrorValue), Rejected(UpstreamErr)}

WaitTimeoutMessageNoMs(taskName, timeout) ==
  "waiting for " \o taskName \o " failed: timeout exceeded"

\* helper.ts:146.
WaitTimeoutMessage(taskName, timeout) ==
  "waiting for " \o taskName \o " failed: timeout " \o ToString(timeout) \o "ms exceeded"

WJob(type, src) == [type |-> type, src |-> src]

ArmTimerAlways(timeout) == "armed"

\* helper.ts:148-150: the timer is armed only for a non-zero timeout.
ArmTimer(timeout) == IF timeout # 0 THEN "armed" ELSE "null"

\* helper.ts:145-152, up to the await.
CallWaitWithTimeout(taskName, timeout) ==
  /\ wpc = "idle"
  /\ wpc' = "awaiting"
  /\ wargs' = [taskName |-> taskName, timeout |-> timeout]
  /\ wtimer' = ArmTimer(timeout)
  /\ wjobs' = IF wpromise.state # "pending"
              THEN Append(wjobs, WJob("race", "promise"))
              ELSE wjobs
  /\ UNCHANGED <<listeners, regVars, waitVars, wpromise, wtimeoutPromise, wrace,
                 woutcome, wfirst>>

\* The computation passed as promise settles.
CompSettle(p) ==
  /\ wpromise.state = "pending"
  /\ wpromise' = p
  /\ wfirst' = IF wfirst = "none" THEN "promise" ELSE wfirst
  /\ wjobs' = IF wpc # "idle" THEN Append(wjobs, WJob("race", "promise")) ELSE wjobs
  /\ UNCHANGED <<listeners, regVars, waitVars, wpc, wargs, wtimeoutPromise, wrace,
                 woutcome, wtimer>>

\* The setTimeout callback of helper.ts:150: a task of its own.
WTimerFire ==
  /\ wtimer = "armed"
  /\ wjobs = <<>>
  /\ wtimer' = "fired"
  /\ wfirst' = IF wfirst = "none" THEN "timeout" ELSE wfirst
  /\ wtimeoutPromise' = Rejected(TimeoutError(WaitTimeoutMessage(wargs.taskName,
                                                                wargs.timeout)))
  /\ wjobs' = Append(wjobs, WJob("race", "timeout"))
  /\ UNCHANGED <<listeners, regVars, waitVars, wpc, wargs, wpromise, wrace, woutcome>>

\* Promise.race's reaction to one of its two inputs (helper.ts:152).
WRaceReaction(job) ==
  LET p == IF job.src = "promise" THEN wpromise ELSE wtimeoutPromise
  IN /\ wrace' = RaceSettle(wrace, p)
     /\ wjobs' = IF wrace.state = "pending"
                 THEN Append(Tail(wjobs), WJob("await", "race"))
                 ELSE Tail(wjobs)
     /\ UNCHANGED <<listeners, regVars, waitVars, wpc, wargs, wpromise,
                    wtimeoutPromise, woutcome, wtimer, wfirst>>

FinallySkipsOnThrow(timer, race) ==
  IF timer = "armed" /\ race.state = "fulfilled" THEN "cleared" ELSE timer

\* The finally block of helper.ts:153-156.
Finally(timer, race) == IF timer = "armed" THEN "cleared" ELSE timer

WResultThrowsErrors(race) == Result(race)

\* helper.ts:152: return await hands the race's settlement on as it is.
WResult(race) == race

\* The function resumes after the await, runs finally and completes.
WAwaitResume ==
  /\ wtimer' = Finally(wtimer, wrace)
  /\ woutcome' = WResult(wrace)
  /\ wpc' = "done"
  /\ wjobs' = Tail(wjobs)
  /\ UNCHANGED <<listeners, regVars, waitVars, wargs, wpromise, wtimeoutPromise,
                 wrace, wfirst>>

WRunMicrotask ==
  /\ wjobs # <<>>
  /\ LET job == Head(wjobs)
     IN \/ job.type = "race" /\ WRaceReaction(job)
        \/ job.type = "await" /\ WAwaitResume

NextWWT ==
  \/ \E n \in TaskNames, t \in WTimeouts : CallWaitWithTimeout(n, t)
  \/ \E p \in CompResults : CompSettle(p)
  \/ WTimerFire
  \/ WRunMicrotask

SpecWWT == Init /\ [][NextWWT]_vars

FairSpecWWT == SpecWWT /\ WF_vars(WRunMicrotask) /\ WF_vars(WTimerFire)

----------------------------------------------------------------------------
(* Properties of waitForEvent *)

AllHandlers == Waits \cup Others

Subscribed(w) == \E e \in Emitters, n \in EventNames : Count(listeners[e][n], w) > 0

\* Position of a completion source in the order of first firing, 0 if it has not fired.
Pos(w, src) ==
  LET idx == {i \in 1..Len(order[w]) : order[w][i].src = src}
  IN IF idx = {} THEN 0 ELSE CHOOSE i \in idx : TRUE

\* Source a has fired, and source b has not fired before it.
FiredBefore(w, a, b) == Pos(w, a) > 0 /\ (Pos(w, b) = 0 \/ Pos(w, a) < Pos(w, b))

FirstIs(w, src) == Len(order[w]) > 0 /\ order[w][1].src = src

Done(w) == pc[w] = "done"

ExpectedTimeoutMessage(eventName) ==
  CASE eventName = "load" -> "Timeout exceeded while waiting for load"
    [] eventName = "close" -> "Timeout exceeded while waiting for close"

TimedOut(w) ==
  /\ outcome[w] = Rejected([kind |-> "TimeoutError",
                            msg |-> ExpectedTimeoutMessage(args[w].eventName)])
  /\ ~Subscribed(w)

C1_Decided(w) ==
  Done(w) =>
    /\ Len(order[w]) > 0
    /\ outcome[w].state \in {"fulfilled", "rejected"}
    /\ outcome[w].value = order[w][1].value
    /\ (order[w][1].state = "rejected" => outcome[w].state = "rejected")
    /\ (order[w][1].state = "fulfilled" /\ ~InstanceOfError(order[w][1].value)
          => outcome[w].state = "fulfilled")

\* C1: the outcome of a waitForEvent call is the one delivered by the completion
\* source that fired first (event match, predicate exception, timer, abort
\* promise), and once the call has an outcome no later firing changes it.
C1_FirstSourceDecides ==
  /\ [](\A w \in Waits : C1_Decided(w))
  /\ [][\A w \in Waits : outcome[w].state # "pending" => outcome'[w] = outcome[w]]_vars

C1_Witness ==
  /\ Done("w1")
  /\ Len(order["w1"]) >= 3
  /\ order["w1"][1].src = "event"
  /\ outcome["w1"] = Fulfilled(PayloadB)

\* C2: cleanup never runs more than once for a call, and a completed call has
\* run it exactly once: one removeListener call for its handler and one
\* clearTimeout call, whichever source won.
C2_CleanupOnce ==
  \A w \in Waits :
    /\ cleanups[w] <= 1 /\ removals[w] <= 1 /\ clears[w] <= 1
    /\ Done(w) => cleanups[w] = 1 /\ removals[w] = 1 /\ clears[w] = 1

C2_Witness ==
  /\ Done("w1")
  /\ cleanups["w1"] = 1
  /\ racePromise["w1"].state = "rejected"
  /\ Len(order["w1"]) >= 2

\* C3: when the caller can observe the outcome, the call's handler is no longer
\* subscribed on any source and its timer is no longer armed.
C3_CleanBeforeObserved ==
  \A w \in Waits :
    outcome[w].state # "pending" => ~Subscribed(w) /\ ~timerArmed[w]

C3_Witness ==
  /\ outcome["w1"].state = "rejected"
  /\ args["w1"].timeout # 0
  /\ ~timerFired["w1"]
  /\ ~Subscribed("w1")

\* C4 as stated: with a timeout > 0, no event satisfying the predicate and an
\* abort promise that has not resolved, a completed call has failed with the
\* Timeout error for its event name and its listener is removed.
C4_Original ==
  \A w \in Waits :
    (Done(w) /\ args[w].timeout > 0 /\ Pos(w, "event") = 0
       /\ abortPromise[w].state = "pending") => TimedOut(w)

\* C4 (amended): with a timeout > 0, a pending call eventually fails with
\* "Timeout exceeded while waiting for <eventName>" and has its listener
\* removed, unless an event satisfies the predicate, the predicate throws or
\* the abort promise settles; and a call whose timer fired first has failed so.
C4_TimeoutEventually ==
  /\ \A w \in Callers :
       [](pc[w] = "awaiting" /\ args[w].timeout > 0
            => <>(TimedOut(w) \/ Pos(w, "event") > 0 \/ Pos(w, "predicate") > 0
                    \/ Pos(w, "abort") > 0))
  /\ [](\A w \in Callers : Done(w) /\ FirstIs(w, "timer") => TimedOut(w))

C4_Witness ==
  /\ TimedOut("w1")
  /\ Len(order["w1"]) = 1
  /\ args["w1"].eventName = "close"

\* C5: when the first completion source to fire is an event on which the
\* predicate returned true, the call succeeds with exactly that event's payload
\* and removes its listener at most once.
C5_Original ==
  \A w \in Waits :
    Done(w) /\ FirstIs(w, "event") =>
      outcome[w] = Fulfilled(order[w][1].value) /\ removals[w] <= 1

\* C6 as stated: an abort promise resolved to an Error before any event
\* satisfied the predicate and before the timer fired makes the call fail with
\* that Error.
C6_Original ==
  \A w \in Waits :
    (Done(w) /\ abortPromise[w].state = "fulfilled"
       /\ InstanceOfError(abortPromise[w].value)
       /\ FiredBefore(w, "abort", "event") /\ FiredBefore(w, "abort", "timer"))
      => outcome[w] = Rejected(abortPromise[w].value)

\* C6 (amended): an abort promise resolved to an Error before any event
\* satisfied the predicate, before the predicate threw and before the timer
\* fired makes the call fail with that same Error value.
C6_AbortErrorWins ==
  \A w \in Waits :
    (Done(w) /\ FirstIs(w, "abort") /\ abortPromise[w].state = "fulfilled"
       /\ InstanceOfError(abortPromise[w].value))
      => outcome[w] = Rejected(abortPromise[w].value) /\ outcome[w].value = AbortErr

C6_Witness ==
  /\ Done("w1")
  /\ FirstIs("w1", "abort")
  /\ abortPromise["w1"] = Fulfilled(AbortErr)
  /\ outcome["w1"] = Rejected(AbortErr)
  /\ Len(order["w1"]) >= 2

\* C7: when the predicate throws Err before any other completion, the call
\* fails with exactly Err, the timer has not fired, and the handler is removed
\* and the timer cleared when the failure is delivered.
C7_PredicateErrorPropagates ==
  \A w \in Waits :
    Done(w) /\ FirstIs(w, "predicate") =>
      /\ outcome[w] = Rejected(PredErr)
      /\ ~timerFired[w]
      /\ ~Subscribed(w)
      /\ ~timerArmed[w]
      /\ clears[w] = 1

C7_Witness ==
  /\ Done("w1")
  /\ FirstIs("w1", "predicate")
  /\ args["w1"].timeout # 0
  /\ outcome["w1"] = Rejected(PredErr)

\* C8: a failed call failed with the predicate's exception, with the engine's
\* Timeout error, or with what the abort promise delivered.
C8_Original ==
  \A w \in Waits :
    Done(w) /\ outcome[w].state = "rejected" =>
      \/ Pos(w, "predicate") > 0 /\ outcome[w].value = PredErr
      \/ timerFired[w] /\ outcome[w].value.kind = "TimeoutError"
      \/ abortPromise[w].state # "pending" /\ outcome[w].value = abortPromise[w].value

----------------------------------------------------------------------------
(* Properties of the listener registry *)

InBatch(b, e, n, h) ==
  Cardinality({i \in 1..Len(b) : b[i] = [emitter |-> e, eventName |-> n, handler |-> h]})

Monus(a, b) == IF a >= b THEN a - b ELSE 0

\* C9: removeEventListeners unsubscribes, for every handle of the batch, one
\* subscription of its handler on its own source and event name and nothing
\* else, makes one removeListener call per handle and leaves the batch empty;
\* on an empty batch (a second call included) it changes no subscription and
\* makes no removeListener call.
C9_RemoveDrains ==
  [][lastOp'.op = "remove" =>
       /\ batch' = <<>>
       /\ removeCalls' = Len(batch)
       /\ \A e \in Emitters, n \in EventNames, h \in AllHandlers :
            Count(listeners'[e][n], h) =
              Monus(Count(listeners[e][n], h), InBatch(batch, e, n, h))
       /\ (batch = <<>> => listeners' = listeners /\ removeCalls' = 0)]_vars

C9_Witness ==
  /\ lastOp = [op |-> "remove", n |-> 0]
  /\ prevOp = [op |-> "remove", n |-> 2]
  /\ batch = <<>>
  /\ removeCalls = 0

----------------------------------------------------------------------------
(* Properties of waitWithTimeout *)

\* C10: a completed waitWithTimeout call leaves no timer armed, and a timer
\* never fires once the computation has settled first.
C10_TimerCleared ==
  /\ wpc = "done" => wtimer # "armed"
  /\ wfirst = "promise" => wtimer # "fired"

C10_Witness ==
  /\ wpc = "done"
  /\ wtimer = "cleared"
  /\ woutcome = Rejected(UpstreamErr)


ExpectedWaitMessage(taskName, timeout) ==
  CASE taskName = "navigation" /\ timeout = 100 ->
         "waiting for navigation failed: timeout 100ms exceeded"
    [] taskName = "navigation" /\ timeout = 30000 ->
         "waiting for navigation failed: timeout 30000ms exceeded"
    [] taskName = "selector" /\ timeout = 100 ->
         "waiting for selector failed: timeout 100ms exceeded"
    [] taskName = "selector" /\ timeout = 30000 ->
         "waiting for selector failed: timeout 30000ms exceeded"
    [] OTHER -> "no timeout"

WTimedOut ==
  woutcome = Rejected([kind |-> "TimeoutError",
                       msg |-> ExpectedWaitMessage(wargs.taskName, wargs.timeout)])

\* C11: a waitWithTimeout call with timeout 0 arms no timer and never rejects
\* its timeout promise; it stays pending while the computation is pending and
\* its outcome is the computation's own outcome, never a Timeout error.
C11_ZeroNeverTimesOut ==
  (wpc # "idle" /\ wargs.timeout = 0) =>
    /\ wtimer = "null"
    /\ wtimeoutPromise = Pending
    /\ woutcome.value.kind # "TimeoutError"
    /\ (wpromise.state = "pending" => wpc = "awaiting" /\ woutcome = Pending)
    /\ (wpc = "done" => woutcome = wpromise)

C11_Witness ==
  /\ wpc = "done"
  /\ wargs.timeout = 0
  /\ woutcome = Fulfilled(CompValue)

\* C12: with a timeout ms > 0, a call whose timer expired before the
\* computation settled fails with the Timeout error "waiting for <taskName>
\* failed: timeout <ms>ms exceeded", and a pending call eventually fails with
\* it unless the computation settles.
C12_TimeoutFails ==
  /\ [](wpc = "done" /\ wfirst = "timeout" => WTimedOut)
  /\ [](wpc = "awaiting" /\ wargs.timeout > 0
          => <>(WTimedOut \/ wpromise.state # "pending"))

C12_Witness ==
  /\ wpc = "done"
  /\ wpromise = Pending
  /\ wargs = [taskName |-> "selector", timeout |-> 30000]
  /\ WTimedOut

\* C13: when the computation settles before the timer fires, the outcome of
\* the call is the computation's outcome: the same value on success, the same
\* error on failure.
C13_UpstreamVerbatim ==
  (wpc = "done" /\ wfirst = "promise") => woutcome = wpromise

C13_Witness ==
  /\ wpc = "done"
  /\ wfirst = "promise"
  /\ wargs.timeout # 0
  /\ wtimer = "cleared"
  /\ woutcome = Rejected(UpstreamErr)

----------------------------------------------------------------------------
(* Further properties of waitForEvent *)

OwnCount(w) == Count(listeners[args[w].emitter][args[w].eventName], w)

\* C15: a waitForEvent call with timeout 0 arms no timer, its timer never
\* fires and it never fails with a Timeout error; as long as no event has
\* satisfied the predicate, the predicate has not thrown and the abort promise
\* has not settled, it stays pending with its handler subscribed once.
C15_ZeroTimeoutNoTimer ==
  \A w \in Waits :
    (pc[w] # "idle" /\ args[w].timeout = 0) =>
      /\ ~timerArmed[w]
      /\ ~timerFired[w]
      /\ Pos(w, "timer") = 0
      /\ outcome[w].value.kind # "TimeoutError"
      /\ (order[w] = <<>> =>
            pc[w] = "awaiting" /\ outcome[w] = Pending /\ promise[w] = Pending
              /\ OwnCount(w) = 1)

C15_Witness ==
  /\ pc["w1"] = "awaiting"
  /\ args["w1"].timeout = 0
  /\ ignored["w1"] = 2
  /\ order["w1"] = <<>>
  /\ OwnCount("w1") = 1

C16_Unchanged(w) ==
  ignored'[w] # ignored[w] =>
    /\ promise'[w] = promise[w]
    /\ racePromise'[w] = racePromise[w]
    /\ outcome'[w] = outcome[w]
    /\ pc'[w] = pc[w]
    /\ order'[w] = order[w]
    /\ timerArmed'[w] = timerArmed[w]
    /\ timerFired'[w] = timerFired[w]
    /\ listeners' = listeners
    /\ OwnCount(w) = 1

\* C16: an event on which the predicate returns false leaves the call as it
\* was: same promise state, handler still subscribed exactly once, timer as
\* armed as before; and a call that ignored an event and then matched B
\* resolves with B after one listener removal, its timer cleared.
C16_FalseEventIgnored ==
  /\ [][\A w \in Waits : C16_Unchanged(w)]_vars
  /\ [](\A w \in Waits :
          (Done(w) /\ ignored[w] >= 1 /\ FirstIs(w, "event")
             /\ order[w][1].value = PayloadB) =>
            /\ outcome[w] = Fulfilled(PayloadB)
            /\ removals[w] = 1
            /\ clears[w] = 1
            /\ ~timerArmed[w])

C16_Witness ==
  /\ Done("w1")
  /\ ignored["w1"] = 1
  /\ FirstIs("w1", "event")
  /\ outcome["w1"] = Fulfilled(PayloadB)
  /\ args["w1"].timeout = 100
  /\ ~timerFired["w1"]
  /\ removals["w1"] = 1

\* C17: when the abort promise is the first source to fire and resolves to a
\* value that is not an Error, the call succeeds with that value, and cleanup
\* has run once when it does.
C17_AbortValueForwarded ==
  \A w \in Waits :
    (Done(w) /\ FirstIs(w, "abort") /\ order[w][1].state = "fulfilled"
       /\ ~InstanceOfError(order[w][1].value)) =>
      /\ outcome[w] = Fulfilled(abortPromise[w].value)
      /\ outcome[w].value = AbortPlain
      /\ cleanups[w] = 1
      /\ ~Subscribed(w)
      /\ ~timerArmed[w]

C17_Witness ==
  /\ Done("w1")
  /\ FirstIs("w1", "abort")
  /\ outcome["w1"] = Fulfilled(AbortPlain)
  /\ args["w1"].timeout # 0

\* C18: when a first matching event is followed, before cleanup, by another
\* matching event or by a predicate exception, the call resolves with the
\* payload of the first matching event.
C18_Original ==
  \A w \in Waits :
    (Done(w) /\ FirstIs(w, "event")
       /\ (Pos(w, "again") > 0 \/ Pos(w, "predicate") > 0)) =>
      outcome[w] = Fulfilled(order[w][1].value)

\* C20: when the abort promise is the first source to fire and rejects, the
\* call fails with the rejection reason, after cleanup has run exactly once.
C20_AbortRejectionPropagates ==
  \A w \in Waits :
    (Done(w) /\ FirstIs(w, "abort") /\ order[w][1].state = "rejected") =>
      /\ outcome[w] = Rejected(abortPromise[w].value)
      /\ outcome[w].value = AbortRejection
      /\ cleanups[w] = 1 /\ removals[w] = 1 /\ clears[w] = 1
      /\ ~Subscribed(w)
      /\ ~timerArmed[w]

C20_Witness ==
  /\ Done("w1")
  /\ FirstIs("w1", "abort")
  /\ outcome["w1"] = Rejected(AbortRejection)
  /\ args["w1"].timeout # 0
  /\ cleanups["w1"] = 1

----------------------------------------------------------------------------
(* Properties of calls sharing a source *)

IsOther(h) == h \in Others

\* C14: the subscriptions of the other subscribers never change; a call's
\* handler is subscribed at most once, only while the call is in progress and
\* only on the call's own source and event name; and when no call is in
\* progress the subscriptions are those from before the calls and no timer
\* is armed.
C14_OwnHandleOnly ==
  /\ \A e \in Emitters, n \in EventNames :
       /\ SelectSeq(listeners[e][n], IsOther) = InitListeners[e][n]
       /\ \A w \in Waits :
            /\ Count(listeners[e][n], w) <= 1
            /\ Count(listeners[e][n], w) = 1 =>
                 pc[w] = "awaiting" /\ args[w].emitter = e /\ args[w].eventName = n
  /\ (\A w \in Waits : pc[w] # "awaiting") =>
       listeners = InitListeners /\ \A w \in Waits : ~timerArmed[w]

C14_Witness ==
  /\ Done("w1") /\ Done("w2")
  /\ outcome["w1"].state = "fulfilled"
  /\ outcome["w2"].state = "rejected"
  /\ ~timerFired["w1"] /\ ~timerFired["w2"]
  /\ listeners = InitListeners

\* C19: when one emitted event is the first completion source of two calls
\* pending on the same source and event name, both calls resolve with that
\* event's payload.
C19_Original ==
  (Done("w1") /\ Done("w2") /\ emits = 1 /\ FirstIs("w1", "event")
     /\ FirstIs("w2", "event")) =>
    /\ outcome["w1"] = Fulfilled(order["w1"][1].value)
    /\ outcome["w2"] = Fulfilled(order["w2"][1].value)

====
